---- MODULE Spec2Model ----
(***************************************************************************)
(* BlockSci: chain segmentation / map-reduce traversal (blockchain.cpp)    *)
(* and the script resolution protocol (parser/script_output.hpp).          *)
(*                                                                         *)
(* Blocks are identified by their height (0-based, as in the code); a      *)
(* transaction is identified by its global transaction index.              *)
(***************************************************************************)
EXTENDS Integers, Sequences, FiniteSets, TLC

\* ------------------------------------------------------------------------
\* Bounds of the model
\* ------------------------------------------------------------------------
MaxBlocks == 3
MaxBlockSize == 2
MaxSegmentCount == 3
\* cap on the number of segments the splitting loop may push (the loop is
\* unbounded once it reads past the end of txIndexes)
MaxEmitted == 3
\* distinct hash / payload values of scripts
MaxHash == 2
\* member public keys of a multisig script
MaxMembers == 1
\* resolve() / check() calls against one AddressState
MaxCalls == 2
\* transaction indexes skipped between two blocks of a corrupt chain
MaxGap == 1
\* largest numRequired / numTotal / addressCount of a multisig payload
MaxCount == 3
\* operations applied to one cursor
MaxCursorOps == 3
\* largest |amount| handed to cursor::advance
MaxAdvance == 2

VARIABLES
    chain,          \* Blockchain: sequence of blocks [firstTxIndex, size]
    pc,             \* position of the filter / mapReduce / segmentChain call
    overload,       \* "Block" or "Transaction": which filter overload runs
    testFunc,       \* the predicate handed to filter
    startBlock,     \* segmentChain argument
    endBlock,       \* segmentChain argument
    segmentCount,   \* segmentChain argument
    it,             \* segmentChain: iterator into txIndexes (as an index)
    segments,       \* segmentChain: std::vector<std::vector<Block>>
    totalCount,     \* segmentChain: the sum computed for the assertion
    mapDone,        \* mapReduce: segments whose map task has completed
    folded,         \* mapReduce: segment positions already reduced, in order
    acc,            \* mapReduce: the accumulator / result
    addressTable,   \* AddressState: RawScript -> scriptNum (the dedup table)
    scriptIndexes,  \* AddressState: the next id to allocate, per script kind
    log,            \* the ScriptOutputs produced by the calls made so far
    scriptData,     \* a ScriptData payload: kind and the multisig fields
    valid,          \* <<b>> once isValid() returned b for scriptData
    currentBlockHeight, \* Blockchain::cursor: the cursor's position
    other,          \* currentBlockHeight of a copy taken of the cursor
    cursorLog       \* the cursor operations applied so far, with results

chainVars == <<chain, pc, overload, testFunc, startBlock, endBlock,
               segmentCount, it, segments, totalCount, mapDone, folded, acc>>

addressVars == <<addressTable, scriptIndexes, log>>

dataVars == <<scriptData, valid>>

cursorVars == <<currentBlockHeight, other, cursorLog>>

vars == <<chain, pc, overload, testFunc, startBlock, endBlock, segmentCount,
          it, segments, totalCount, mapDone, folded, acc,
          addressTable, scriptIndexes, log,
          scriptData, valid, currentBlockHeight, other, cursorLog>>

\* ------------------------------------------------------------------------
\* Helpers
\* ------------------------------------------------------------------------
Min(a, b) == IF a < b THEN a ELSE b

Max(a, b) == IF a > b THEN a ELSE b

RECURSIVE Sum(_)
Sum(s) == IF s = <<>> THEN 0 ELSE Head(s) + Sum(Tail(s))

RECURSIVE Flatten(_)
Flatten(ss) == IF ss = <<>> THEN <<>> ELSE Head(ss) \o Flatten(Tail(ss))

\* the integers lo, lo+1, ..., hi-1 as a sequence
Interval(lo, hi) == [i \in 1..Max(hi - lo, 0) |-> lo + i - 1]

\* ------------------------------------------------------------------------
\* Blockchain / Block
\* ------------------------------------------------------------------------
\* a chain built from a sequence of block sizes: blocks are contiguous
ChainOf(sizes) ==
    [h \in 1..Len(sizes) |->
        [firstTxIndex |-> Sum(SubSeq(sizes, 1, h - 1)), size |-> sizes[h]]]

Chains ==
    { ChainOf(sizes) :
        sizes \in UNION { [1..n -> 1..MaxBlockSize] : n \in 1..MaxBlocks } }

\* a chain whose block metadata violates contiguity: the block at height
\* gapAt begins gap transaction indexes after the end of the block before it
CorruptChainOf(sizes, gapAt, gap) ==
    [h \in 1..Len(sizes) |->
        [firstTxIndex |-> Sum(SubSeq(sizes, 1, h - 1))
                            + (IF h > gapAt THEN gap ELSE 0),
         size |-> sizes[h]]]

CorruptChains ==
    UNION { { CorruptChainOf(sizes, gapAt, gap) :
                sizes \in [1..n -> 1..MaxBlockSize],
                gapAt \in 1..(n - 1), gap \in 1..MaxGap } :
            n \in 2..MaxBlocks }

\* Blockchain::size()
ChainSize == Len(chain)

\* chain[height].firstTxIndex()
firstTxIndex(height) == chain[height + 1].firstTxIndex

\* chain[height].size()
BlockSize(height) == chain[height + 1].size

\* chain[height].endTxIndex()
endTxIndex(height) == chain[height + 1].firstTxIndex + chain[height + 1].size

\* the transactions of a block, in order (for (auto tx : block))
BlockTxes(height) == Interval(firstTxIndex(height), endTxIndex(height))

\* uint32_t txCount(const Blockchain &)
txCount == endTxIndex(ChainSize - 1)

\* ------------------------------------------------------------------------
\* segmentChain
\* ------------------------------------------------------------------------
lastTx == endTxIndex(endBlock - 1)

firstTx == firstTxIndex(startBlock)

totalTxCount == lastTx - firstTx

\* txIndexes[i], the vector filled at lines 36-40; it has chain.size()
\* elements
txIndexes(i) == firstTxIndex(i)

\* values an out-of-bounds read of txIndexes can produce
GarbageValues == 0 .. (MaxBlocks * MaxBlockSize + MaxGap + 1)

\* *it: reading the element at or past txIndexes.end() is undefined
\* behaviour; the read yields an arbitrary uint32_t
Deref(i) == IF i < ChainSize THEN {txIndexes(i)} ELSE GarbageValues

\* lastTx - *it > segmentSize, with segmentSize = totalTxCount / segmentCount
\* as a double.  lastTx - v is uint32_t arithmetic: for v > lastTx it wraps
\* to 2^32 - (v - lastTx), which is above every segmentSize of the model.
LoopCond(v) ==
    \/ v > lastTx
    \/ (lastTx - v) * segmentCount > totalTxCount

\* txIndexes[i] < breakPoint, where breakPoint = v + segmentSize
LessThanBreakPoint(i, v) ==
    (txIndexes(i) - v) * segmentCount < totalTxCount

\* std::lower_bound(first, last, v + segmentSize) over txIndexes
lower_bound(first, last, v) ==
    LET hits == { i \in first..(last - 1) : ~LessThanBreakPoint(i, v) }
    IN  IF hits = {} THEN last
        ELSE CHOOSE i \in hits : \A j \in hits : i <= j

\* variant of DropTake that drops one block too many
DropTake_dropOneMore(d, t) == Interval(d + 1, d + Min(t, Max(ChainSize - d, 0)))

\* chain | ranges::view::drop(d) | ranges::view::take(t) | ranges::to_vector
DropTake(d, t) == Interval(d, d + Min(t, Max(ChainSize - d, 0)))

\* variant of WithRemainder that hands take() the end index, not the count
WithRemainder_takeEnd(segs, segmentStart) ==
    LET remainingRange ==
            Interval(segmentStart,
                     segmentStart + Min(endBlock, Max(ChainSize - segmentStart, 0)))
    IN  IF Len(segs) = segmentCount
        THEN [segs EXCEPT ![Len(segs)] = segs[Len(segs)] \o remainingRange]
        ELSE Append(segs, remainingRange)

\* lines 55-61: the blocks left after the loop become the last segment
WithRemainder(segs, segmentStart) ==
    LET remainingRange == DropTake(segmentStart, endBlock - segmentStart)
    IN  IF Len(segs) = segmentCount
        THEN [segs EXCEPT ![Len(segs)] = segs[Len(segs)] \o remainingRange]
        ELSE Append(segs, remainingRange)

\* lines 63-73: the per-segment counts and their sum
SegmentSizes(segs) ==
    [k \in 1..Len(segs) |->
        Sum([b \in 1..Len(segs[k]) |-> BlockSize(segs[k][b])])]

\* ------------------------------------------------------------------------
\* filter (both overloads)
\* ------------------------------------------------------------------------
TestFuncs == { [m |-> 1, r |-> 0], [m |-> 2, r |-> 0], [m |-> 2, r |-> 1] }

\* testFunc(x): the caller's predicate on a block (height) or transaction
Test(tf, x) == x % tf.m = tf.r

Keep(tf, s) == SelectSeq(s, LAMBDA x : Test(tf, x))

RECURSIVE BlocksTxes(_)
BlocksTxes(blocks) ==
    IF blocks = <<>> THEN <<>>
    ELSE BlockTxes(Head(blocks)) \o BlocksTxes(Tail(blocks))

\* variant of mapFunc whose Block overload collects without testing
mapFunc_noTest(ov, tf, segment) ==
    IF ov = "Block" THEN segment
    ELSE Keep(tf, BlocksTxes(segment))

\* mapFunc of filter: lines 156-164 (Block) and 177-187 (Transaction)
mapFunc(ov, tf, segment) ==
    IF ov = "Block" THEN Keep(tf, segment)
    ELSE Keep(tf, BlocksTxes(segment))

\* variant of reduceFunc that inserts at vec1.begin()
reduceFunc_prepend(vec1, vec2) == vec2 \o vec1

\* reduceFunc of filter: lines 166-170 and 189-193
reduceFunc(vec1, vec2) == vec1 \o vec2


\* ------------------------------------------------------------------------
\* AddressState and ScriptOutput (parser/script_output.hpp)
\* ------------------------------------------------------------------------
\* blocksci::AddressType::Enum, one ScriptData specialisation each
AddressTypes ==
    { "PUBKEY", "PUBKEYHASH", "WITNESS_PUBKEYHASH", "SCRIPTHASH",
      "WITNESS_SCRIPTHASH", "MULTISIG", "NONSTANDARD", "NULL_DATA" }

Hashes == 1..MaxHash

\* a parsed script: its kind, its payload (the hash of a hashed kind, the
\* key of a public key, the bytes of a raw kind) and, for a multisig, the
\* public keys of its members
Scripts ==
    { [type |-> t, data |-> h, addresses |-> <<>>] :
        t \in AddressTypes \ {"MULTISIG"}, h \in Hashes }
    \cup
    { [type |-> "MULTISIG", data |-> 0, addresses |-> a] :
        a \in UNION { [1..n -> Hashes] : n \in 1..MaxMembers } }

\* blocksci::scriptType(type): the kind the ids are scoped by
scriptType(type) == type

\* blocksci::ScriptInfo<script>::deduped
deduped(script) == script \notin {"MULTISIG", "NONSTANDARD", "NULL_DATA"}

\* an injective encoding of a member list as one number
RECURSIVE Encode(_)
Encode(a) ==
    IF a = <<>> THEN 0
    ELSE a[Len(a)] + (MaxHash + 1) * Encode(SubSeq(a, 1, Len(a) - 1))

\* ScriptData<type>::getHash(): the hash function is collision-free
getHash(s) == IF s.type = "MULTISIG" THEN Encode(s.addresses) ELSE s.data

\* blocksci::RawScript{hash, script}
RawScript(hash, script) == <<hash, script>>

\* a fresh AddressState
EmptyState ==
    [table |-> [r \in {} |-> 0],
     indexes |-> [k \in AddressTypes |-> 1]]

\* AddressState::findAddress(rawAddress)
findAddress(state, rawAddress) ==
    IF rawAddress \in DOMAIN state.table
    THEN [rawAddress |-> rawAddress, addressNum |-> state.table[rawAddress],
          found |-> TRUE]
    ELSE [rawAddress |-> rawAddress, addressNum |-> 0, found |-> FALSE]

\* AddressState::getNewAddressIndex(script)
getNewAddressIndex(state, script) ==
    [state |-> [state EXCEPT !.indexes[script] = @ + 1],
     scriptNum |-> state.indexes[script]]

\* AddressState::resolveAddress(addressInfo): inserts on a miss
resolveAddress(state, addressInfo) ==
    IF addressInfo.found
    THEN [state |-> state, scriptNum |-> addressInfo.addressNum,
          isNew |-> FALSE]
    ELSE LET fresh == getNewAddressIndex(state, addressInfo.rawAddress[2])
             raw == addressInfo.rawAddress
         IN  [state |->
                [fresh.state EXCEPT !.table =
                    [r \in DOMAIN @ \cup {raw} |->
                        IF r = raw THEN fresh.scriptNum ELSE @[r]]],
              scriptNum |-> fresh.scriptNum,
              isNew |-> TRUE]

\* a member of a multisig is a ScriptOutput<PUBKEY>
MemberScript(h) == [type |-> "PUBKEY", data |-> h, addresses |-> <<>>]

RECURSIVE resolve(_, _)
RECURSIVE check(_, _)
RECURSIVE dataResolve(_, _)
RECURSIVE dataCheck(_, _)

\* ScriptData<type>::resolve(state): ScriptDataBase does nothing; a
\* multisig resolves its member public keys in order.  Yields the state
\* and the members' (scriptNum, isNew).
dataResolve(state, s) ==
    IF s.type # "MULTISIG" \/ s.addresses = <<>>
    THEN [state |-> state, members |-> <<>>]
    ELSE LET n == Len(s.addresses)
             front == dataResolve(state, [s EXCEPT !.addresses = SubSeq(@, 1, n - 1)])
             last == resolve(front.state, MemberScript(s.addresses[n]))
         IN  [state |-> last.state,
              members |-> Append(front.members,
                                 [scriptNum |-> last.scriptNum, isNew |-> last.isNew])]

\* ScriptData<type>::check(state): the read-only counterpart
dataCheck(state, s) ==
    IF s.type # "MULTISIG" \/ s.addresses = <<>>
    THEN [state |-> state, members |-> <<>>]
    ELSE LET n == Len(s.addresses)
             front == dataCheck(state, [s EXCEPT !.addresses = SubSeq(@, 1, n - 1)])
             last == check(front.state, MemberScript(s.addresses[n]))
         IN  [state |-> last.state,
              members |-> Append(front.members,
                                 [scriptNum |-> last.scriptNum, isNew |-> last.isNew])]

\* lines 36-44 of ScriptOutput::resolve: the id and the isNew flag
ResolveId(state, s) ==
    LET script == scriptType(s.type)
    IN  IF deduped(script)
        THEN LET rawAddress == RawScript(getHash(s), script)
                 addressInfo == findAddress(state, rawAddress)
             IN  resolveAddress(state, addressInfo)
        ELSE LET fresh == getNewAddressIndex(state, script)
             IN  [state |-> fresh.state, scriptNum |-> fresh.scriptNum,
                  isNew |-> TRUE]

\* variant of resolve that resolves the payload whether or not isNew
resolve_alwaysCascade(state, s) ==
    LET id == ResolveId(state, s)
        nested == dataResolve(id.state, s)
    IN  [state |-> nested.state, scriptNum |-> id.scriptNum,
         isNew |-> id.isNew, cascaded |-> TRUE, members |-> nested.members]

\* variant of resolve that looks every kind up in the dedup table
resolve_dedupAll(state, s) ==
    LET script == scriptType(s.type)
        rawAddress == RawScript(getHash(s), script)
        id == resolveAddress(state, findAddress(state, rawAddress))
    IN  IF id.isNew
        THEN LET nested == dataResolve(id.state, s)
             IN  [state |-> nested.state, scriptNum |-> id.scriptNum,
                  isNew |-> id.isNew, cascaded |-> TRUE,
                  members |-> nested.members]
        ELSE [state |-> id.state, scriptNum |-> id.scriptNum,
              isNew |-> id.isNew, cascaded |-> FALSE, members |-> <<>>]

\* variant of resolve that dedups the raw kinds by their bytes
resolve_dedupRaw(state, s) ==
    LET id == IF s.type \in {"NONSTANDARD", "NULL_DATA"}
              THEN resolveAddress(state,
                      findAddress(state, RawScript(s.data, scriptType(s.type))))
              ELSE ResolveId(state, s)
    IN  IF id.isNew
        THEN LET nested == dataResolve(id.state, s)
             IN  [state |-> nested.state, scriptNum |-> id.scriptNum,
                  isNew |-> id.isNew, cascaded |-> TRUE,
                  members |-> nested.members]
        ELSE [state |-> id.state, scriptNum |-> id.scriptNum,
              isNew |-> id.isNew, cascaded |-> FALSE, members |-> <<>>]

\* variant of resolve whose dedup key leaves the hash out
resolve_hashBlind(state, s) ==
    LET script == scriptType(s.type)
        id == IF deduped(script)
              THEN resolveAddress(state, findAddress(state, RawScript(0, script)))
              ELSE ResolveId(state, s)
    IN  IF id.isNew
        THEN LET nested == dataResolve(id.state, s)
             IN  [state |-> nested.state, scriptNum |-> id.scriptNum,
                  isNew |-> id.isNew, cascaded |-> TRUE,
                  members |-> nested.members]
        ELSE [state |-> id.state, scriptNum |-> id.scriptNum,
              isNew |-> id.isNew, cascaded |-> FALSE, members |-> <<>>]

\* variant of resolve that never consults the dedup table
resolve_neverDedup(state, s) ==
    LET fresh == getNewAddressIndex(state, scriptType(s.type))
        nested == dataResolve(fresh.state, s)
    IN  [state |-> nested.state, scriptNum |-> fresh.scriptNum,
         isNew |-> TRUE, cascaded |-> TRUE, members |-> nested.members]

\* ScriptOutput<type>::resolve(state), lines 35-49.  cascaded records
\* whether data.resolve(state) was called.
resolve(state, s) ==
    LET id == ResolveId(state, s)
    IN  IF id.isNew
        THEN LET nested == dataResolve(id.state, s)
             IN  [state |-> nested.state, scriptNum |-> id.scriptNum,
                  isNew |-> id.isNew, cascaded |-> TRUE,
                  members |-> nested.members]
        ELSE [state |-> id.state, scriptNum |-> id.scriptNum,
              isNew |-> id.isNew, cascaded |-> FALSE, members |-> <<>>]

\* variant of check that reports every script as new without a lookup
check_alwaysNew(state, s) ==
    LET nested == dataCheck(state, s)
    IN  [state |-> nested.state, scriptNum |-> 0, isNew |-> TRUE,
         members |-> nested.members]

\* variant of check that resolves instead of looking up
check_resolving(state, s) ==
    LET r == resolve(state, s)
    IN  [state |-> r.state, scriptNum |-> r.scriptNum, isNew |-> r.isNew,
         members |-> r.members]

\* ScriptOutput<type>::check(state), lines 51-64; state is const
check(state, s) ==
    LET script == scriptType(s.type)
        id == IF deduped(script)
              THEN LET rawAddress == RawScript(getHash(s), script)
                       addressInfo == findAddress(state, rawAddress)
                   IN  [scriptNum |-> addressInfo.addressNum,
                        isNew |-> addressInfo.addressNum = 0]
              ELSE [scriptNum |-> 0, isNew |-> TRUE]
        nested == dataCheck(state, s)
    IN  [state |-> nested.state, scriptNum |-> id.scriptNum,
         isNew |-> id.isNew, members |-> nested.members]

\* the AddressState as the operators above take it
State == [table |-> addressTable, indexes |-> scriptIndexes]

\* ------------------------------------------------------------------------
\* Initial state and actions
\* ------------------------------------------------------------------------
\* no call of the resolution protocol has been made
AddressInit ==
    /\ addressTable = EmptyState.table
    /\ scriptIndexes = EmptyState.indexes
    /\ log = <<>>

\* no payload has been parsed: a ScriptData<NULL_DATA> stands in
DataInit ==
    /\ scriptData = [type |-> "NULL_DATA", numRequired |-> 0, numTotal |-> 0,
                     addressCount |-> 0]
    /\ valid = <<>>

\* a cursor at the first block, with no operation applied yet
CursorInit ==
    /\ currentBlockHeight = 0
    /\ other = 0
    /\ cursorLog = <<>>

Init ==
    /\ AddressInit
    /\ DataInit
    /\ CursorInit
    /\ chain \in Chains
    /\ pc = "idle"
    /\ overload = "Block"
    /\ testFunc = [m |-> 1, r |-> 0]
    /\ startBlock = 0
    /\ endBlock = 1
    /\ segmentCount = 1
    /\ it = 0
    /\ segments = <<>>
    /\ totalCount = 0
    /\ mapDone = {}
    /\ folded = <<>>
    /\ acc = <<>>

\* filter(chain, startBlock, endBlock, testFunc) calls chain.mapReduce,
\* which calls segmentChain with an implementation-chosen segmentCount;
\* segmentChain runs lines 29-45.
FilterCall ==
    /\ pc = "idle"
    /\ \E ov \in {"Block", "Transaction"}, tf \in TestFuncs,
          sb \in 0..(ChainSize - 1), eb \in 1..ChainSize,
          n \in 1..MaxSegmentCount :
        /\ sb < eb
        /\ overload' = ov
        /\ testFunc' = tf
        /\ startBlock' = sb
        /\ endBlock' = eb
        /\ segmentCount' = n
        /\ it' = sb
    /\ segments' = <<>>
    /\ pc' = "segmentLoop"
    /\ UNCHANGED <<chain, totalCount, mapDone, folded, acc>>
    /\ UNCHANGED <<addressVars, dataVars, cursorVars>>

\* one iteration of the while loop, lines 46-54
SegmentLoopIter ==
    /\ pc = "segmentLoop"
    /\ Len(segments) < MaxEmitted
    /\ \E v \in Deref(it) :
        /\ LoopCond(v)
        /\ LET segmentStart == it
               segmentEnd == lower_bound(it, endBlock, v)
           IN  /\ it' = segmentEnd
               /\ segments' = Append(segments,
                                DropTake(segmentStart, segmentEnd - segmentStart))
    /\ UNCHANGED <<chain, pc, overload, testFunc, startBlock, endBlock,
                   segmentCount, totalCount, mapDone, folded, acc>>
    /\ UNCHANGED <<addressVars, dataVars, cursorVars>>

\* the loop condition fails: lines 55-76
SegmentLoopExit ==
    /\ pc = "segmentLoop"
    /\ \E v \in Deref(it) : ~LoopCond(v)
    /\ LET segs == WithRemainder(segments, it)
       IN  /\ segments' = segs
           /\ totalCount' = Sum(SegmentSizes(segs))
           \* assert(totalCount == totalTxCount): a failed assertion aborts,
           \* unless the build defines NDEBUG and compiles it out
           /\ pc' \in IF Sum(SegmentSizes(segs)) = totalTxCount
                      THEN {"map"} ELSE {"map", "assertFailed"}
    /\ mapDone' = {}
    /\ folded' = <<>>
    /\ acc' = <<>>
    /\ UNCHANGED <<chain, overload, testFunc, startBlock, endBlock,
                   segmentCount, it>>
    /\ UNCHANGED <<addressVars, dataVars, cursorVars>>

\* mapReduce: the map task of one segment completes; the tasks run
\* concurrently and complete in any order
MapComplete ==
    /\ pc = "map"
    /\ \E k \in (1..Len(segments)) \ mapDone : mapDone' = mapDone \cup {k}
    /\ UNCHANGED <<chain, pc, overload, testFunc, startBlock, endBlock,
                   segmentCount, it, segments, totalCount, folded, acc>>
    /\ UNCHANGED <<addressVars, dataVars, cursorVars>>

\* mapReduce: the serial reduce folds the next segment's result, in
\* segment order, once that segment's map has completed
ReduceStep ==
    /\ pc = "map"
    /\ Len(folded) < Len(segments)
    /\ LET k == Len(folded) + 1
       IN  /\ k \in mapDone
           /\ acc' = reduceFunc(acc, mapFunc(overload, testFunc, segments[k]))
           /\ folded' = Append(folded, k)
    /\ UNCHANGED <<chain, pc, overload, testFunc, startBlock, endBlock,
                   segmentCount, it, segments, totalCount, mapDone>>
    /\ UNCHANGED <<addressVars, dataVars, cursorVars>>

\* mapReduce returns the accumulator, filter returns it to its caller
FilterReturn ==
    /\ pc = "map"
    /\ Len(folded) = Len(segments)
    /\ pc' = "done"
    /\ UNCHANGED <<chain, overload, testFunc, startBlock, endBlock,
                   segmentCount, it, segments, totalCount, mapDone, folded, acc>>
    /\ UNCHANGED <<addressVars, dataVars, cursorVars>>

Next ==
    \/ FilterCall
    \/ SegmentLoopIter
    \/ SegmentLoopExit
    \/ MapComplete
    \/ ReduceStep
    \/ FilterReturn

Spec == Init /\ [][Next]_vars

\* the same calls made on a chain whose block metadata is corrupt
CorruptInit ==
    /\ AddressInit
    /\ DataInit
    /\ CursorInit
    /\ chain \in CorruptChains
    /\ pc = "idle"
    /\ overload = "Block"
    /\ testFunc = [m |-> 1, r |-> 0]
    /\ startBlock = 0
    /\ endBlock = 1
    /\ segmentCount = 1
    /\ it = 0
    /\ segments = <<>>
    /\ totalCount = 0
    /\ mapDone = {}
    /\ folded = <<>>
    /\ acc = <<>>

CorruptSpec == CorruptInit /\ [][Next]_vars

\* ------------------------------------------------------------------------
\* The resolution protocol: resolve() and check() calls against one
\* AddressState
\* ------------------------------------------------------------------------
AddressSpecInit ==
    /\ AddressInit
    /\ DataInit
    /\ CursorInit
    /\ chain = ChainOf(<<1>>)
    /\ pc = "idle"
    /\ overload = "Block"
    /\ testFunc = [m |-> 1, r |-> 0]
    /\ startBlock = 0
    /\ endBlock = 1
    /\ segmentCount = 1
    /\ it = 0
    /\ segments = <<>>
    /\ totalCount = 0
    /\ mapDone = {}
    /\ folded = <<>>
    /\ acc = <<>>

\* output.resolve(state) for a parsed script
Resolve ==
    /\ Len(log) < MaxCalls
    /\ \E s \in Scripts :
        LET r == resolve(State, s)
        IN  /\ addressTable' = r.state.table
            /\ scriptIndexes' = r.state.indexes
            /\ log' = Append(log,
                        [op |-> "resolve", script |-> s,
                         scriptNum |-> r.scriptNum, isNew |-> r.isNew,
                         cascaded |-> r.cascaded, members |-> r.members])
    /\ UNCHANGED <<chainVars, dataVars, cursorVars>>

\* output.check(state) for a parsed script
Check ==
    /\ Len(log) < MaxCalls
    /\ \E s \in Scripts :
        LET r == check(State, s)
        IN  /\ addressTable' = r.state.table
            /\ scriptIndexes' = r.state.indexes
            /\ log' = Append(log,
                        [op |-> "check", script |-> s,
                         scriptNum |-> r.scriptNum, isNew |-> r.isNew,
                         cascaded |-> TRUE, members |-> r.members])
    /\ UNCHANGED <<chainVars, dataVars, cursorVars>>

AddressNext ==
    \/ Resolve
    \/ Check

AddressSpec == AddressSpecInit /\ [][AddressNext]_vars

\* ------------------------------------------------------------------------
\* ScriptData payloads and their validity predicate
\* ------------------------------------------------------------------------
\* ScriptDataBase::isValid() for every kind but multisig, which overrides it
isValid_ignoresCount(d) ==
    IF d.type = "MULTISIG" THEN d.numRequired <= d.numTotal ELSE TRUE

isValid(d) ==
    IF d.type = "MULTISIG"
    THEN d.numRequired <= d.numTotal /\ d.numTotal = d.addressCount
    ELSE TRUE

\* ScriptData<MULTISIG>::addAddress(vch1): one more member is collected;
\* addressCount is a uint16_t
addAddress(d) == [d EXCEPT !.addressCount = (@ + 1) % 65536]

\* a payload as the parser hands it over: numRequired and numTotal read from
\* the script, no member collected yet (the constructor sets addressCount
\* to 0); the other kinds have none of the three fields
ValidInit ==
    /\ AddressInit
    /\ CursorInit
    /\ \E t \in AddressTypes, nr \in 0..MaxCount, nt \in 0..MaxCount :
          /\ t # "MULTISIG" => (nr = 0 /\ nt = 0)
          /\ scriptData = [type |-> t, numRequired |-> nr, numTotal |-> nt,
                           addressCount |-> 0]
    /\ valid = <<>>
    /\ chain = ChainOf(<<1>>)
    /\ pc = "idle"
    /\ overload = "Block"
    /\ testFunc = [m |-> 1, r |-> 0]
    /\ startBlock = 0
    /\ endBlock = 1
    /\ segmentCount = 1
    /\ it = 0
    /\ segments = <<>>
    /\ totalCount = 0
    /\ mapDone = {}
    /\ folded = <<>>
    /\ acc = <<>>

\* the parser collects one more member public key of a multisig
AddAddress ==
    /\ scriptData.type = "MULTISIG"
    /\ scriptData.addressCount < MaxCount
    /\ scriptData' = addAddress(scriptData)
    /\ valid' = <<>>
    /\ UNCHANGED <<chainVars, addressVars, cursorVars>>

\* data.isValid()
IsValid ==
    /\ valid' = <<isValid(scriptData)>>
    /\ UNCHANGED scriptData
    /\ UNCHANGED <<chainVars, addressVars, cursorVars>>

ValidNext ==
    \/ AddAddress
    \/ IsValid

ValidSpec == ValidInit /\ [][ValidNext]_vars

\* ------------------------------------------------------------------------
\* Blockchain::cursor
\* ------------------------------------------------------------------------
\* currentBlockHeight is written as the int that static_cast<int> gives for
\* it: the unsigned value 2^32 - k, reached by stepping k below 0, is
\* written -k, and stepping back up gives the same heights again.

\* Blockchain::lastBlockHeight, set by the constructor to blockCount()
lastBlockHeight == ChainSize

\* Block(currentBlockHeight, *chain->access->chain)
Block(height) == [height |-> height, block |-> chain[height + 1]]

\* cursor::read() const
read(height) == Block(height)

\* cursor::equal(ranges::default_sentinel) const
equalSentinel(height) == height = lastBlockHeight

\* cursor::next()
next(height) == height + 1

\* cursor::prev()
prev(height) == height - 1

\* cursor::equal(const cursor &other) const
equal(height, otherHeight) == height = otherHeight

\* variant of distance_to that subtracts the other way round
distance_to_reversed(height, that) == height - that

\* cursor::distance_to(cursor const &that) const
distance_to(height, that) == that - height

\* cursor::advance(int amount)
advance(height, amount) == height + amount

\* chains of one-transaction blocks
CursorChains == { ChainOf([h \in 1..n |-> 1]) : n \in 1..MaxBlocks }

\* a cursor somewhere between begin() and end(), and a copy of it
CursorSpecInit ==
    /\ AddressInit
    /\ DataInit
    /\ chain \in CursorChains
    /\ currentBlockHeight \in 0..lastBlockHeight
    /\ other = currentBlockHeight
    /\ cursorLog = <<>>
    /\ pc = "idle"
    /\ overload = "Block"
    /\ testFunc = [m |-> 1, r |-> 0]
    /\ startBlock = 0
    /\ endBlock = 1
    /\ segmentCount = 1
    /\ it = 0
    /\ segments = <<>>
    /\ totalCount = 0
    /\ mapDone = {}
    /\ folded = <<>>
    /\ acc = <<>>

\* the record kept of one cursor operation: the cursor's height before and
\* after it, the copy's height after it, and what the operation returned
CursorEntry(op, amount, result) ==
    [op |-> op, amount |-> amount, before |-> currentBlockHeight,
     after |-> currentBlockHeight', copy |-> other', result |-> result]

\* ++c
CursorNext ==
    /\ Len(cursorLog) < MaxCursorOps
    /\ UNCHANGED other
    /\ currentBlockHeight' = next(currentBlockHeight)
    /\ cursorLog' = Append(cursorLog, CursorEntry("next", 0, 0))
    /\ UNCHANGED <<chainVars, addressVars, dataVars>>

\* --c
CursorPrev ==
    /\ Len(cursorLog) < MaxCursorOps
    /\ UNCHANGED other
    /\ currentBlockHeight' = prev(currentBlockHeight)
    /\ cursorLog' = Append(cursorLog, CursorEntry("prev", 0, 0))
    /\ UNCHANGED <<chainVars, addressVars, dataVars>>

\* c += amount
CursorAdvance ==
    /\ Len(cursorLog) < MaxCursorOps
    /\ UNCHANGED other
    /\ \E amount \in (-MaxAdvance)..MaxAdvance :
          /\ currentBlockHeight' = advance(currentBlockHeight, amount)
          /\ cursorLog' = Append(cursorLog, CursorEntry("advance", amount, 0))
    /\ UNCHANGED <<chainVars, addressVars, dataVars>>

\* c0 = c: the cursor is copied
CursorCopy ==
    /\ Len(cursorLog) < MaxCursorOps
    /\ UNCHANGED currentBlockHeight
    /\ other' = currentBlockHeight
    /\ cursorLog' = Append(cursorLog, CursorEntry("copy", 0, 0))
    /\ UNCHANGED <<chainVars, addressVars, dataVars>>

\* *c, at a position that holds a block
CursorRead ==
    /\ Len(cursorLog) < MaxCursorOps
    /\ currentBlockHeight \in 0..(ChainSize - 1)
    /\ UNCHANGED <<currentBlockHeight, other>>
    /\ cursorLog' = Append(cursorLog,
                          CursorEntry("read", 0, read(currentBlockHeight)))
    /\ UNCHANGED <<chainVars, addressVars, dataVars>>

\* c0.distance_to(c)
CursorDistanceTo ==
    /\ Len(cursorLog) < MaxCursorOps
    /\ UNCHANGED <<currentBlockHeight, other>>
    /\ cursorLog' = Append(cursorLog,
                          CursorEntry("distance_to", 0,
                                      distance_to(other, currentBlockHeight)))
    /\ UNCHANGED <<chainVars, addressVars, dataVars>>

\* c == c0
CursorEqual ==
    /\ Len(cursorLog) < MaxCursorOps
    /\ UNCHANGED <<currentBlockHeight, other>>
    /\ cursorLog' = Append(cursorLog,
                          CursorEntry("equal", 0,
                                      equal(currentBlockHeight, other)))
    /\ UNCHANGED <<chainVars, addressVars, dataVars>>

\* c == end sentinel
CursorEqualSentinel ==
    /\ Len(cursorLog) < MaxCursorOps
    /\ UNCHANGED <<currentBlockHeight, other>>
    /\ cursorLog' = Append(cursorLog,
                          CursorEntry("equalSentinel", 0,
                                      equalSentinel(currentBlockHeight)))
    /\ UNCHANGED <<chainVars, addressVars, dataVars>>

CursorStep ==
    \/ CursorNext
    \/ CursorPrev
    \/ CursorAdvance
    \/ CursorCopy
    \/ CursorRead
    \/ CursorDistanceTo
    \/ CursorEqual
    \/ CursorEqualSentinel

CursorSpec == CursorSpecInit /\ [][CursorStep]_vars

\* ------------------------------------------------------------------------
\* Properties of segmentChain
\* ------------------------------------------------------------------------
\* segmentChain has returned its segments
Returned == pc \in {"map", "done"}

\* C1: the segments returned by segmentChain, concatenated in the order
\* returned, are exactly the blocks startBlock, ..., endBlock-1 in
\* increasing height order: none omitted, none twice, none outside.
C1_SegmentsPartitionRange ==
    Returned => Flatten(segments) = Interval(startBlock, endBlock)

C1_Witness ==
    /\ Returned
    /\ Len(segments) >= 2
    /\ startBlock > 0
    /\ endBlock < ChainSize
    /\ Flatten(segments) = Interval(startBlock, endBlock)

\* C2: the postcondition assertion of segmentChain holds on well-formed
\* chains: the block sizes of all returned segments sum to
\* lastBlock.endTxIndex() - firstBlock.firstTxIndex().
C2_AssertionHolds ==
    /\ pc # "assertFailed"
    /\ Returned =>
        /\ totalCount = endTxIndex(endBlock - 1) - firstTxIndex(startBlock)
        /\ Sum([k \in 1..Len(segments) |->
                 Sum([b \in 1..Len(segments[k]) |->
                       chain[segments[k][b] + 1].size])])
             = endTxIndex(endBlock - 1) - firstTxIndex(startBlock)

\* a skewed range: the last block holds more transactions than all the
\* blocks before it together, and the range was split
C2_Witness ==
    /\ Returned
    /\ endBlock - startBlock >= 2
    /\ Len(segments) >= 2
    /\ BlockSize(endBlock - 1) > firstTxIndex(endBlock - 1) - firstTx
    /\ totalCount = totalTxCount

\* C3: the number of segments returned by segmentChain never exceeds
\* segmentCount.
C3_AtMostSegmentCount ==
    Returned => Len(segments) <= segmentCount

\* ------------------------------------------------------------------------
\* Properties of mapReduce / filter
\* ------------------------------------------------------------------------
\* the result of one sequential left-to-right scan over blocks
SequentialScan(blocks) == mapFunc(overload, testFunc, blocks)

\* C7: reduce folds the per-segment results serially in segment order, each
\* once and only after that segment's map completed; for every completion
\* order of the map tasks the accumulator equals a sequential scan of the
\* blocks of the segments folded so far, and the final result that of the
\* whole range.
C7_OrderedFold ==
    /\ pc \in {"map", "done"} =>
        /\ folded = Interval(1, Len(folded) + 1)
        /\ \A i \in 1..Len(folded) : folded[i] \in mapDone
        /\ acc = SequentialScan(Flatten(SubSeq(segments, 1, Len(folded))))
    /\ pc = "done" =>
        /\ Len(folded) = Len(segments)
        /\ acc = SequentialScan(Interval(startBlock, endBlock))

\* segment 3's map completed before segment 2's, and segment 1 has been
\* folded already with a non-empty result
C7_Witness ==
    /\ pc = "map"
    /\ Len(segments) >= 3
    /\ 3 \in mapDone
    /\ 2 \notin mapDone
    /\ folded = <<1>>
    /\ acc # <<>>
    /\ mapFunc(overload, testFunc, segments[2]) # <<>>

\* the elements filter ranges over: blocks or their transactions
RangeElements ==
    IF overload = "Block" THEN startBlock..(endBlock - 1)
    ELSE UNION { firstTxIndex(h)..(endTxIndex(h) - 1) :
                    h \in startBlock..(endBlock - 1) }

\* C8: filter returns exactly the elements of [startBlock, endBlock) for
\* which testFunc is true, each once and in chain order; the Transaction
\* overload with an always-true predicate over [0, chain.size()) returns
\* all transactions of the chain in order.
C8_FilterExact ==
    pc = "done" =>
        /\ \A i, j \in 1..Len(acc) : i < j => acc[i] < acc[j]
        /\ { acc[i] : i \in 1..Len(acc) }
             = { x \in RangeElements : Test(testFunc, x) }
        /\ (/\ overload = "Transaction"
            /\ testFunc.m = 1
            /\ startBlock = 0
            /\ endBlock = ChainSize) =>
                acc = [i \in 1..txCount |-> i - 1]

C8_Witness ==
    /\ pc = "done"
    /\ overload = "Transaction"
    /\ testFunc.m = 1
    /\ startBlock = 0
    /\ endBlock = ChainSize
    /\ ChainSize >= 2
    /\ Len(segments) >= 2
    /\ Len(acc) = txCount

\* ------------------------------------------------------------------------
\* Properties of the resolution protocol
\* ------------------------------------------------------------------------
\* the resolve() calls made so far, nested member resolves included, in the
\* order they ran
RECURSIVE ResolveEvents(_)
ResolveEvents(l) ==
    IF l = <<>> THEN <<>>
    ELSE LET e == l[Len(l)]
             outer == [type |-> e.script.type, data |-> e.script.data,
                       scriptNum |-> e.scriptNum, isNew |-> e.isNew]
             inner == [k \in 1..Len(e.members) |->
                        [type |-> "PUBKEY", data |-> e.script.addresses[k],
                         scriptNum |-> e.members[k].scriptNum,
                         isNew |-> e.members[k].isNew]]
         IN  ResolveEvents(SubSeq(l, 1, Len(l) - 1)) \o
             (IF e.op = "resolve" THEN <<outer>> \o inner ELSE <<>>)

\* the dedup key of a resolve event
KeyOf(e) == <<e.data, e.type>>

IsDedupedKind(type) ==
    type \in {"PUBKEY", "PUBKEYHASH", "WITNESS_PUBKEYHASH", "SCRIPTHASH",
              "WITNESS_SCRIPTHASH"}

\* C4: all resolves of deduped-kind scripts with the same RawScript key get
\* the same scriptNum, with isNew true for the first of them and false for
\* every later one; two hashed-public-key scripts with the same hash
\* resolved against a fresh AddressState yield (1, true) then (1, false).
C4_DedupIdempotent ==
    LET ev == ResolveEvents(log)
    IN  /\ \A j \in 1..Len(ev) :
            IsDedupedKind(ev[j].type) =>
                LET earlier == { i \in 1..(j - 1) : KeyOf(ev[i]) = KeyOf(ev[j]) }
                IN  /\ ev[j].isNew = (earlier = {})
                    /\ \A i \in earlier : ev[j].scriptNum = ev[i].scriptNum
        /\ (/\ Len(log) >= 2
            /\ log[1].op = "resolve"
            /\ log[2].op = "resolve"
            /\ log[1].script.type = "PUBKEYHASH"
            /\ log[2].script = log[1].script) =>
                /\ log[1].scriptNum = 1 /\ log[1].isNew
                /\ log[2].scriptNum = 1 /\ ~log[2].isNew

\* the same hashed public key resolved twice against a fresh AddressState
C4_Witness ==
    /\ Len(log) = 2
    /\ log[1].op = "resolve" /\ log[2].op = "resolve"
    /\ log[1].script.type = "PUBKEYHASH"
    /\ log[2].script = log[1].script
    /\ log[1].isNew /\ ~log[2].isNew
    /\ log[2].scriptNum = log[1].scriptNum

\* the step is a call of the given operation
CallStep(op) ==
    /\ Len(log') = Len(log) + 1
    /\ log'[Len(log')].op = op

\* C5: check() never mutates AddressState: a check() of a script of any
\* kind leaves the dedup table and every id allocation counter as they were.
C5_CheckIsPure ==
    [][CallStep("check") =>
          /\ addressTable' = addressTable
          /\ scriptIndexes' = scriptIndexes]_vars

\* after one resolve, an unknown script and a multisig whose member is
\* known have been checked
C5_Witness ==
    /\ Len(log) = 2
    /\ log[1].op = "resolve" /\ log[1].script.type = "PUBKEY"
    /\ log[2].op = "check" /\ log[2].script.type = "MULTISIG"
    /\ log[2].isNew
    /\ Len(log[2].members) = 1
    /\ ~log[2].members[1].isNew
    /\ log[2].members[1].scriptNum = log[1].scriptNum
    /\ DOMAIN addressTable = {<<log[1].script.data, "PUBKEY">>}

\* C6: resolve() calls the payload's nested resolution exactly when the
\* outer resolution produced isNew = true; resolving a script whose
\* RawScript is already in AddressState resolves no nested script and
\* leaves AddressState unchanged.
C6_CascadeIffNew ==
    [][CallStep("resolve") =>
          LET e == log'[Len(log')]
              raw == <<e.script.data, e.script.type>>
          IN  /\ e.cascaded = e.isNew
              /\ e.cascaded => Len(e.members) = Len(e.script.addresses)
              /\ raw \in DOMAIN addressTable =>
                    /\ ~e.cascaded
                    /\ e.members = <<>>
                    /\ addressTable' = addressTable
                    /\ scriptIndexes' = scriptIndexes]_vars

\* a new multisig cascaded into its member; the public key of that member,
\* resolved afterwards, was present and did not cascade
C6_Witness ==
    /\ Len(log) = 2
    /\ log[1].op = "resolve" /\ log[1].script.type = "MULTISIG"
    /\ log[1].cascaded /\ Len(log[1].members) = 1
    /\ log[1].members[1].isNew
    /\ log[2].op = "resolve" /\ log[2].script.type = "PUBKEY"
    /\ log[2].script.data = log[1].script.addresses[1]
    /\ ~log[2].isNew /\ ~log[2].cascaded

\* C9: every resolve() of a script of a non-deduped kind allocates a fresh
\* id and sets isNew: the scriptNums of the resolved scripts of one such
\* kind are pairwise distinct, byte-identical scripts included.
C9_NonDedupedAlwaysFresh ==
    LET ev == ResolveEvents(log)
    IN  \A j \in 1..Len(ev) :
            ~IsDedupedKind(ev[j].type) =>
                /\ ev[j].isNew
                /\ \A i \in 1..(j - 1) :
                      ev[i].type = ev[j].type => ev[i].scriptNum # ev[j].scriptNum

\* two byte-identical non-standard scripts resolved in sequence
C9_Witness ==
    /\ Len(log) = 2
    /\ \A i \in 1..2 :
        /\ log[i].op = "resolve"
        /\ log[i].script.type = "NONSTANDARD"
        /\ log[i].script = log[1].script
        /\ log[i].isNew
    /\ log[1].scriptNum = 1 /\ log[2].scriptNum = 2

ScriptKey(s) == RawScript(getHash(s), scriptType(s.type))

\* C15: check() agrees with resolve() on deduped kinds.  In every state
\* reached by resolve() calls, for every deduped-kind script, check()
\* reports looksNew with scriptNum 0 exactly when the script's RawScript is
\* absent from the state, which is exactly when resolve() on that state
\* would report isNew; otherwise it reports the scriptNum resolve() assigned
\* to that RawScript.  resolve() never assigns scriptNum 0.
C15_CheckAgreesWithResolve ==
    LET ev == ResolveEvents(log)
    IN  /\ \A j \in 1..Len(ev) : ev[j].scriptNum # 0
        /\ \A s \in Scripts :
              deduped(scriptType(s.type)) =>
                LET c == check(State, s)
                    r == resolve(State, s)
                    assigned == { ev[j].scriptNum :
                                    j \in { i \in 1..Len(ev) :
                                              KeyOf(ev[i]) = ScriptKey(s) } }
                IN  /\ c.isNew = (ScriptKey(s) \notin DOMAIN addressTable)
                    /\ c.isNew = r.isNew
                    /\ c.isNew => c.scriptNum = 0 /\ assigned = {}
                    /\ ~c.isNew => /\ c.scriptNum = r.scriptNum
                                   /\ assigned = {c.scriptNum}
                    /\ r.scriptNum # 0
        /\ \A j \in 1..Len(log) :
              (log[j].op = "check" /\ deduped(scriptType(log[j].script.type))) =>
                LET before == ResolveEvents(SubSeq(log, 1, j - 1))
                    same == { i \in 1..Len(before) :
                                KeyOf(before[i]) = ScriptKey(log[j].script) }
                IN  /\ log[j].isNew = (same = {})
                    /\ log[j].isNew => log[j].scriptNum = 0
                    /\ \A i \in same : log[j].scriptNum = before[i].scriptNum

\* a hashed public key is resolved, then the same script is checked
C15_Witness ==
    /\ Len(log) = 2
    /\ log[1].op = "resolve" /\ log[2].op = "check"
    /\ log[1].script.type = "WITNESS_PUBKEYHASH"
    /\ log[2].script = log[1].script
    /\ log[1].isNew /\ ~log[2].isNew
    /\ log[2].scriptNum = log[1].scriptNum
    /\ log[2].scriptNum # 0
    /\ ~check(State, log[1].script).isNew

\* C19: identities are injective and stable per kind.  Two resolved scripts
\* of the same kind with the same scriptNum have the same RawScript key and
\* are of a deduped kind, so distinct keys and distinct non-deduped
\* occurrences never share an id; and the id assigned to a RawScript is
\* the id the state holds for it after every later resolve() or check().
C19_IdsInjectiveAndStable ==
    LET ev == ResolveEvents(log)
    IN  /\ \A i, j \in 1..Len(ev) :
              (i < j /\ ev[i].type = ev[j].type
                     /\ ev[i].scriptNum = ev[j].scriptNum) =>
                  /\ IsDedupedKind(ev[i].type)
                  /\ KeyOf(ev[i]) = KeyOf(ev[j])
        /\ \A j \in 1..Len(ev) :
              IsDedupedKind(ev[j].type) =>
                  /\ KeyOf(ev[j]) \in DOMAIN addressTable
                  /\ addressTable[KeyOf(ev[j])] = ev[j].scriptNum
        /\ \A k1, k2 \in DOMAIN addressTable :
              (k1[2] = k2[2] /\ addressTable[k1] = addressTable[k2]) => k1 = k2

\* two script hashes of one kind are resolved and get different ids, both
\* held by the state
C19_Witness ==
    /\ Len(log) = 2
    /\ log[1].op = "resolve" /\ log[2].op = "resolve"
    /\ log[1].script.type = "SCRIPTHASH"
    /\ log[2].script.type = "SCRIPTHASH"
    /\ log[1].script.data # log[2].script.data
    /\ log[1].scriptNum # log[2].scriptNum
    /\ addressTable[ScriptKey(log[1].script)] = log[1].scriptNum
    /\ addressTable[ScriptKey(log[2].script)] = log[2].scriptNum

\* ------------------------------------------------------------------------
\* Properties of the splitting loop of segmentChain
\* ------------------------------------------------------------------------
\* the step is one iteration of the splitting loop
LoopIteration ==
    /\ pc = "segmentLoop"
    /\ pc' = "segmentLoop"
    /\ Len(segments') = Len(segments) + 1

\* the transaction index at which block b begins; the block after the last
\* one would begin where the chain ends
BoundaryTx(b) == IF b < ChainSize THEN firstTxIndex(b) ELSE txCount

\* C11: every segment emitted by the splitting loop ends at the smallest
\* block index of the allowed range whose firstTxIndex is at least
\* firstTxIndex(segment start) + totalTx / segmentCount, and the loop runs
\* only while the transactions remaining up to the range end strictly
\* exceed that target.
C11_SegmentEndsAtBreakPoint ==
    [][LoopIteration =>
          /\ (lastTx - BoundaryTx(it)) * segmentCount > totalTxCount
          /\ it' \in it..endBlock
          /\ (BoundaryTx(it') - BoundaryTx(it)) * segmentCount >= totalTxCount
          /\ \A b \in it..(it' - 1) :
                (BoundaryTx(b) - BoundaryTx(it)) * segmentCount < totalTxCount
          /\ segments'[Len(segments')] = Interval(it, it')]_vars

\* C16: each iteration of the splitting loop moves the current position to
\* a strictly greater block index, so the loop runs at most
\* endBlock - startBlock times.
C16_LoopAdvances ==
    [][LoopIteration => it' > it /\ it' <= endBlock]_vars

\* C17: every read of txIndexes is at a position in [0, chain.size()): the
\* position the loop condition dereferences is never txIndexes.end().
C17_ReadsInBounds ==
    pc = "segmentLoop" => (it >= 0 /\ it < ChainSize)

\* C18: every segment returned by segmentChain holds at least one block.
C18_NoEmptySegment ==
    Returned => \A k \in 1..Len(segments) : segments[k] # <<>>

\* C13: when the postcondition of segmentChain fails (the block sizes of the
\* segments do not sum to lastTx - firstTx, as on a chain that violates
\* contiguity) the call fails as a whole: no segment list reaches the caller
\* or mapReduce.
C13_FailedPostconditionReturnsNothing ==
    Sum(SegmentSizes(segments)) # totalTxCount => ~Returned

\* C12: a multisig payload is valid exactly when numRequired <= numTotal
\* and numTotal equals the number of collected members: (numRequired 3,
\* numTotal 2) is invalid, numTotal 2 with 1 collected member is invalid,
\* (numRequired 2, numTotal 3) with exactly 3 collected members is valid;
\* a payload of any other kind is always valid.
C12_IsValid ==
    valid # <<>> =>
        LET nr == scriptData.numRequired
            nt == scriptData.numTotal
            ac == scriptData.addressCount
        IN  IF scriptData.type = "MULTISIG"
            THEN /\ nr > nt => valid = <<FALSE>>
                 /\ nt # ac => valid = <<FALSE>>
                 /\ (nr <= nt /\ nt = ac) => valid = <<TRUE>>
                 /\ (nr = 3 /\ nt = 2) => valid = <<FALSE>>
                 /\ (nt = 2 /\ ac = 1) => valid = <<FALSE>>
                 /\ (nr = 2 /\ nt = 3 /\ ac = 3) => valid = <<TRUE>>
            ELSE valid = <<TRUE>>

\* isValid() was called on a 1-of-2 multisig with one member collected: the
\* threshold is fine, the member count is not
C12_Witness ==
    /\ scriptData = [type |-> "MULTISIG", numRequired |-> 1, numTotal |-> 2,
                     addressCount |-> 1]
    /\ valid = <<FALSE>>

\* C14: the cursor is integer arithmetic on the block height.  next() then
\* prev(), and prev() then next(), restore the position; after a copy c0 is
\* taken and c.advance(n) keeps the height in [0, lastBlockHeight],
\* c0.distance_to(c) is n; equal(other) holds exactly when the heights are
\* equal; equality with the end sentinel holds exactly when the height is
\* the chain's block count; read() changes neither cursor nor chain, and
\* reads of one position return the same Block.
C14_CursorArithmetic ==
    LET L == cursorLog
        InRange(h) == h \in 0..Len(chain)
    IN  /\ \A i \in 1..(Len(L) - 1) :
              /\ (L[i].op = "next" /\ L[i + 1].op = "prev") =>
                    L[i + 1].after = L[i].before
              /\ (L[i].op = "prev" /\ L[i + 1].op = "next") =>
                    L[i + 1].after = L[i].before
        /\ \A i \in 1..(Len(L) - 2) :
              (/\ L[i].op = "copy" /\ InRange(L[i].before)
               /\ L[i + 1].op = "advance" /\ InRange(L[i + 1].after)
               /\ L[i + 2].op = "distance_to") =>
                    L[i + 2].result = L[i + 1].amount
        /\ \A i \in 1..Len(L) :
              /\ L[i].op = "distance_to" =>
                    L[i].copy + L[i].result = L[i].before
              /\ L[i].op = "equal" =>
                    (L[i].result <=> L[i].before = L[i].copy)
              /\ L[i].op = "equalSentinel" =>
                    (L[i].result <=> L[i].before = Len(chain))
              /\ L[i].op = "read" =>
                    /\ L[i].after = L[i].before
                    /\ L[i].result.height = L[i].before
                    /\ L[i].result.block = chain[L[i].before + 1]
                    /\ \A j \in 1..Len(L) :
                          (L[j].op = "read" /\ L[j].before = L[i].before) =>
                              L[j].result = L[i].result
              /\ L[i].op \in {"read", "distance_to", "equal", "equalSentinel",
                              "copy"} => L[i].after = L[i].before
              /\ L[i].op # "copy" =>
                    L[i].copy = (IF i = 1 THEN L[i].copy ELSE L[i - 1].copy)

\* a copy is taken, the cursor is moved back by two blocks and the distance
\* from the copy to it is -2
C14_Witness ==
    /\ Len(cursorLog) = 3
    /\ cursorLog[1].op = "copy"
    /\ cursorLog[2].op = "advance"
    /\ cursorLog[2].amount = -2
    /\ cursorLog[2].after \in 0..lastBlockHeight
    /\ cursorLog[3].op = "distance_to"
    /\ cursorLog[3].result = -2

TypeOK ==
    /\ pc \in {"idle", "segmentLoop", "map", "done", "assertFailed"}
    /\ it \in 0..ChainSize
====
